---- MODULE Spec2Model ----
(***************************************************************************)
(* The keyed asynchronous resource cache: class Resource (load / get /     *)
(* read) and the registry returned by createResourceGroup().               *)
(*                                                                         *)
(* JavaScript runs every call and every promise reaction to completion,    *)
(* so each method call and each promise callback is one atomic action.     *)
(* A promise is modelled by its settlement record; the chain built in      *)
(* load() is  p0 = this.loader(),  p1 = p0.then(onResult),                 *)
(* p2 = p1.catch(onError), and this.promise = p2.                          *)
(*                                                                         *)
(* Two further units stand beside the cache and share no state with it:    *)
(* the PARAMETER.COMMIT transition of viewStageMachine and the array       *)
(* comparison isSameArray of the colour modal.                             *)
(***************************************************************************)
EXTENDS Integers, Sequences, FiniteSets, TLC

VARIABLES
    groups,     \* registry name -> its Map<string, Resource> (key -> resource id, 0 = no entry)
    resources,  \* sequence of Resource objects: [loader, error, promise, result]
    chains,     \* sequence of promise chains, one per promise the loader returned
    invoked,    \* per resource: the log of loader invocations made by load()
    origin,     \* per resource: the registry call that constructed it
    waiters,    \* per caller: the handle its last load() returned and what it observed
    last,       \* the last call or callback that ran and what it returned or threw
    machine,    \* the State of a viewStageMachine service: [value, context, event]
    cmp         \* a call of isSameArray: its arguments a, b and what it returned

vars == <<groups, resources, chains, invoked, origin, waiters, last, machine, cmp>>

cacheVars == <<groups, resources, chains, invoked, origin, waiters, last>>

\* ---------------------------------------------------------------- bounds
\* load() is not modelled past this many invocations of one Resource's loader
MaxCalls == 2
\* context.parameters of a view stage holds at most this many parameters
MaxParams == 2
\* the arrays handed to isSameArray are at most this long
MaxLen == 2

Groups == {"g1", "g2"}
Keys == {"a", "b"}
Loaders == {"A", "B"}
Callers == {"c1", "c2", "c3"}

\* null / undefined of the source: `x != null` is false for both
NullV == "null"
Values == {NullV, "v1", "v2"}
Errors == {NullV, "e1", "e2"}

\* ---------------------------------------------------------------- promises
PendingP == [st |-> "pending", val |-> NullV]
FulfilledP(v) == [st |-> "fulfilled", val |-> v]
RejectedP(e) == [st |-> "rejected", val |-> e]

NoWaiter == [res |-> 0, h |-> 0, seen |-> PendingP]

NoCall == [op |-> "none", grp |-> "-", key |-> "-", arg |-> "-",
           res |-> 0, kind |-> "none", val |-> NullV, h |-> 0]

\* what a call reports: kind is "return", "undefined" (no return value),
\* "throwError" (an Error is thrown) or "throwPromise" (a promise is thrown)
Outcome(op, r, kind, val, h) ==
    [op |-> op, grp |-> "-", key |-> "-", arg |-> "-",
     res |-> r, kind |-> kind, val |-> val, h |-> h]

\* a promise callback ran: no call returned anything
Callback == [NoCall EXCEPT !.op = "callback"]

Res == 1..Len(resources)
Handles == 1..Len(chains)

\* the lifecycle of a Resource: Unstarted until load() stores this.promise,
\* Resolved(v) once the .then() callback has run with v, Rejected(e) once the
\* .catch() callback has run with e, Pending in between
State(r) ==
    LET h == resources[r].promise IN
    IF h = 0 THEN [st |-> "Unstarted", val |-> NullV]
    ELSE IF chains[h].p1.st = "fulfilled" THEN [st |-> "Resolved", val |-> chains[h].p1.val]
    ELSE IF chains[h].p2.st = "rejected" THEN [st |-> "Rejected", val |-> chains[h].p2.val]
    ELSE [st |-> "Pending", val |-> NullV]

\* ---------------------------------------------------------------- Resource
\* constructor: the three fields start null, the loader is kept
NewResource(loader) ==
    [loader |-> loader, error |-> NullV, promise |-> 0, result |-> NullV]

\* what this.loader() can do when it is called: throw, or return a promise
LoaderBehaviours ==
    {[kind |-> "throw", err |-> e] : e \in Errors \ {NullV}}
        \cup {[kind |-> "promise", err |-> NullV]}

\* load(): the body of the `promise == null` branch when the loader returns a
\* promise: the chain is built and stored in this.promise
LoadStart(c, r) ==
    /\ chains' = Append(chains, [res |-> r, p0 |-> PendingP, p1 |-> PendingP, p2 |-> PendingP])
    /\ resources' = [resources EXCEPT ![r].promise = Len(chains) + 1]
    /\ invoked' = [invoked EXCEPT ![r] = Append(@, [loader |-> resources[r].loader, h |-> Len(chains) + 1])]
    /\ waiters' = [waiters EXCEPT ![c] = [res |-> r, h |-> Len(chains) + 1, seen |-> PendingP]]
    /\ last' = Outcome("load", r, "return", NullV, Len(chains) + 1)

\* load(): this.loader() throws: the exception leaves load() before
\* this.promise is assigned
LoadThrow(c, r, e) ==
    /\ invoked' = [invoked EXCEPT ![r] = Append(@, [loader |-> resources[r].loader, h |-> 0])]
    /\ last' = Outcome("load", r, "throwError", e, 0)
    /\ UNCHANGED <<resources, chains, waiters>>

\* load(): this.promise is set: it is returned as it is
LoadExisting(c, r) ==
    /\ waiters' = [waiters EXCEPT ![c] = [res |-> r, h |-> resources[r].promise, seen |-> PendingP]]
    /\ last' = Outcome("load", r, "return", NullV, resources[r].promise)
    /\ UNCHANGED <<resources, chains, invoked>>

\* load() without the `promise == null` test
Load_NoPromiseCheck(c, r) ==
    /\ Len(invoked[r]) < MaxCalls
    /\ \E b \in LoaderBehaviours :
          IF b.kind = "throw" THEN LoadThrow(c, r, b.err) ELSE LoadStart(c, r)
    /\ UNCHANGED <<groups, origin>>

\* load() that starts over once an error is stored
Load_RetryAfterError(c, r) ==
    /\ IF resources[r].promise = 0 \/ resources[r].error # NullV
         THEN /\ Len(invoked[r]) < MaxCalls
              /\ \E b \in LoaderBehaviours :
                    IF b.kind = "throw" THEN LoadThrow(c, r, b.err) ELSE LoadStart(c, r)
         ELSE LoadExisting(c, r)
    /\ UNCHANGED <<groups, origin>>

Load(c, r) ==
    /\ IF resources[r].promise = 0
         THEN /\ Len(invoked[r]) < MaxCalls
              /\ \E b \in LoaderBehaviours :
                    IF b.kind = "throw" THEN LoadThrow(c, r, b.err) ELSE LoadStart(c, r)
         ELSE LoadExisting(c, r)
    /\ UNCHANGED <<groups, origin>>

\* get()
GetOutcome(r) ==
    IF resources[r].result # NullV
      THEN Outcome("get", r, "return", resources[r].result, 0)
      ELSE Outcome("get", r, "undefined", NullV, 0)

Get(r) ==
    /\ last' = GetOutcome(r)
    /\ UNCHANGED <<groups, resources, chains, invoked, origin, waiters>>

\* read() that returns this.result whenever no error is stored
ReadOutcome_NoPendingBranch(r) ==
    IF resources[r].error # NullV
      THEN Outcome("read", r, "throwError", resources[r].error, 0)
      ELSE Outcome("read", r, "return", resources[r].result, 0)

\* read() that throws an Error when there is no promise to throw
ReadOutcome_ThrowsMisuse(r) ==
    IF resources[r].result # NullV
      THEN Outcome("read", r, "return", resources[r].result, 0)
      ELSE IF resources[r].error # NullV
             THEN Outcome("read", r, "throwError", resources[r].error, 0)
             ELSE IF resources[r].promise = 0
                    THEN Outcome("read", r, "throwError", "e2", 0)
                    ELSE Outcome("read", r, "throwPromise", NullV, resources[r].promise)

\* read()
ReadOutcome(r) ==
    IF resources[r].result # NullV
      THEN Outcome("read", r, "return", resources[r].result, 0)
      ELSE IF resources[r].error # NullV
             THEN Outcome("read", r, "throwError", resources[r].error, 0)
             ELSE Outcome("read", r, "throwPromise", NullV, resources[r].promise)

\* read() that starts the load when none has been started
Read_StartsLoad(r) ==
    /\ IF resources[r].promise = 0
         THEN /\ chains' = Append(chains, [res |-> r, p0 |-> PendingP,
                                           p1 |-> PendingP, p2 |-> PendingP])
              /\ resources' = [resources EXCEPT ![r].promise = Len(chains) + 1]
              /\ invoked' = [invoked EXCEPT ![r] =
                               Append(@, [loader |-> resources[r].loader, h |-> Len(chains) + 1])]
              /\ last' = Outcome("read", r, "throwPromise", NullV, Len(chains) + 1)
         ELSE /\ last' = ReadOutcome(r)
              /\ UNCHANGED <<resources, chains, invoked>>
    /\ UNCHANGED <<groups, origin, waiters>>

Read(r) ==
    /\ last' = ReadOutcome(r)
    /\ UNCHANGED <<groups, resources, chains, invoked, origin, waiters>>

\* ---------------------------------------------------------------- the loader's promise
LoaderResolve(h, v) ==
    /\ chains[h].p0.st = "pending"
    /\ chains' = [chains EXCEPT ![h].p0 = FulfilledP(v)]
    /\ last' = Callback
    /\ UNCHANGED <<groups, resources, invoked, origin, waiters>>

LoaderReject(h, e) ==
    /\ chains[h].p0.st = "pending"
    /\ chains' = [chains EXCEPT ![h].p0 = RejectedP(e)]
    /\ last' = Callback
    /\ UNCHANGED <<groups, resources, invoked, origin, waiters>>

\* a .then() callback that stores the result in a field all Resources share
ThenCallback_SharedResult(h) ==
    /\ chains[h].p0.st = "fulfilled"
    /\ chains[h].p1.st = "pending"
    /\ resources' = [r \in Res |-> [resources[r] EXCEPT !.result = chains[h].p0.val]]
    /\ chains' = [chains EXCEPT ![h].p1 = FulfilledP(chains[h].p0.val)]
    /\ last' = Callback
    /\ UNCHANGED <<groups, invoked, origin, waiters>>

\* load() that clears this.promise once the value is stored
ThenCallback_ClearsPromise(h) ==
    /\ chains[h].p0.st = "fulfilled"
    /\ chains[h].p1.st = "pending"
    /\ resources' = [resources EXCEPT ![chains[h].res].result = chains[h].p0.val,
                                      ![chains[h].res].promise = 0]
    /\ chains' = [chains EXCEPT ![h].p1 = FulfilledP(chains[h].p0.val)]
    /\ last' = Callback
    /\ UNCHANGED <<groups, invoked, origin, waiters>>

\* a .then() callback that does not wait for the loader's promise
ThenCallback_NoWait(h) ==
    /\ chains[h].p0.st # "rejected"
    /\ chains[h].p1.st = "pending"
    /\ resources' = [resources EXCEPT ![chains[h].res].result = "v1"]
    /\ chains' = [chains EXCEPT ![h].p1 = FulfilledP("v1")]
    /\ last' = Callback
    /\ UNCHANGED <<groups, invoked, origin, waiters>>

\* ---------------------------------------------------------------- promise reactions
\* .then((result) => { this.result = result; return result; })
ThenCallback(h) ==
    /\ chains[h].p0.st = "fulfilled"
    /\ chains[h].p1.st = "pending"
    /\ resources' = [resources EXCEPT ![chains[h].res].result = chains[h].p0.val]
    /\ chains' = [chains EXCEPT ![h].p1 = FulfilledP(chains[h].p0.val)]
    /\ last' = Callback
    /\ UNCHANGED <<groups, invoked, origin, waiters>>

\* .then() has no rejection handler: a rejection of the loader's promise
\* passes to the promise .then() returned
ThenSkipped(h) ==
    /\ chains[h].p0.st = "rejected"
    /\ chains[h].p1.st = "pending"
    /\ chains' = [chains EXCEPT ![h].p1 = RejectedP(chains[h].p0.val)]
    /\ last' = Callback
    /\ UNCHANGED <<groups, resources, invoked, origin, waiters>>

\* a .catch() callback that stores the error in both fields
CatchCallback_StoresInResult(h) ==
    /\ chains[h].p1.st = "rejected"
    /\ chains[h].p2.st = "pending"
    /\ resources' = [resources EXCEPT ![chains[h].res].error = chains[h].p1.val,
                                      ![chains[h].res].result = chains[h].p1.val]
    /\ chains' = [chains EXCEPT ![h].p2 = RejectedP(chains[h].p1.val)]
    /\ last' = Callback
    /\ UNCHANGED <<groups, invoked, origin, waiters>>

\* .catch((error) => { this.error = error; throw error; })
CatchCallback(h) ==
    /\ chains[h].p1.st = "rejected"
    /\ chains[h].p2.st = "pending"
    /\ resources' = [resources EXCEPT ![chains[h].res].error = chains[h].p1.val]
    /\ chains' = [chains EXCEPT ![h].p2 = RejectedP(chains[h].p1.val)]
    /\ last' = Callback
    /\ UNCHANGED <<groups, invoked, origin, waiters>>

\* a promise chain whose last promise is never fulfilled
CatchSkipped_NeverFulfils(h) ==
    /\ FALSE
    /\ UNCHANGED vars

\* .catch() is not run for a fulfilled promise: the value passes through
CatchSkipped(h) ==
    /\ chains[h].p1.st = "fulfilled"
    /\ chains[h].p2.st = "pending"
    /\ chains' = [chains EXCEPT ![h].p2 = FulfilledP(chains[h].p1.val)]
    /\ last' = Callback
    /\ UNCHANGED <<groups, resources, invoked, origin, waiters>>

\* a caller that awaits the promise load() returned is resumed with its outcome
Notify(c) ==
    /\ waiters[c].h # 0
    /\ waiters[c].seen.st = "pending"
    /\ chains[waiters[c].h].p2.st # "pending"
    /\ waiters' = [waiters EXCEPT ![c].seen = chains[waiters[c].h].p2]
    /\ last' = Callback
    /\ UNCHANGED <<groups, resources, chains, invoked, origin>>

\* ---------------------------------------------------------------- registry
\* createResourceGroup(): a new, empty Map
CreateResourceGroup(g) ==
    /\ g \notin DOMAIN groups
    /\ groups' = [x \in DOMAIN groups \cup {g} |->
                    IF x = g THEN [k \in Keys |-> 0] ELSE groups[x]]
    /\ last' = [NoCall EXCEPT !.op = "createResourceGroup", !.grp = g]
    /\ UNCHANGED <<resources, chains, invoked, origin, waiters>>

\* a registry whose Map is shared by every createResourceGroup() result
GroupGetNew_SharedMap(g, id, loader) ==
    /\ resources' = Append(resources, NewResource(loader))
    /\ groups' = [x \in DOMAIN groups |-> [groups[x] EXCEPT ![id] = Len(resources) + 1]]
    /\ invoked' = Append(invoked, <<>>)
    /\ origin' = Append(origin, [grp |-> g, key |-> id, loader |-> loader])
    /\ last' = [NoCall EXCEPT !.op = "groupGet", !.grp = g, !.key = id, !.arg = loader,
                              !.res = Len(resources) + 1, !.kind = "return"]

\* the function createResourceGroup() returns: (id, loader) => Resource
GroupGetNew(g, id, loader) ==
    /\ resources' = Append(resources, NewResource(loader))
    /\ groups' = [groups EXCEPT ![g][id] = Len(resources) + 1]
    /\ invoked' = Append(invoked, <<>>)
    /\ origin' = Append(origin, [grp |-> g, key |-> id, loader |-> loader])
    /\ last' = [NoCall EXCEPT !.op = "groupGet", !.grp = g, !.key = id, !.arg = loader,
                              !.res = Len(resources) + 1, !.kind = "return"]

GroupGetExisting(g, id, loader) ==
    /\ last' = [NoCall EXCEPT !.op = "groupGet", !.grp = g, !.key = id, !.arg = loader,
                              !.res = groups[g][id], !.kind = "return"]
    /\ UNCHANGED <<groups, resources, invoked, origin>>

\* a registry that constructs a Resource on every call
GroupGet_AlwaysNew(g, id, loader) ==
    /\ g \in DOMAIN groups
    /\ Len(resources) < Cardinality(Keys)
    /\ GroupGetNew(g, id, loader)
    /\ UNCHANGED <<chains, waiters>>

\* a registry that starts the load of the Resource it constructs
GroupGet_EagerLoad(g, id, loader) ==
    /\ g \in DOMAIN groups
    /\ IF groups[g][id] = 0
         THEN /\ resources' = Append(resources,
                     [NewResource(loader) EXCEPT !.promise = Len(chains) + 1])
              /\ chains' = Append(chains, [res |-> Len(resources) + 1, p0 |-> PendingP,
                                           p1 |-> PendingP, p2 |-> PendingP])
              /\ groups' = [groups EXCEPT ![g][id] = Len(resources) + 1]
              /\ invoked' = Append(invoked, <<[loader |-> loader, h |-> Len(chains) + 1]>>)
              /\ origin' = Append(origin, [grp |-> g, key |-> id, loader |-> loader])
              /\ last' = [NoCall EXCEPT !.op = "groupGet", !.grp = g, !.key = id, !.arg = loader,
                                        !.res = Len(resources) + 1, !.kind = "return"]
              /\ UNCHANGED waiters
         ELSE GroupGetExisting(g, id, loader) /\ UNCHANGED <<chains, waiters>>

\* a registry that replaces the entry when a different loader is supplied
GroupGet_ReplacesOnNewLoader(g, id, loader) ==
    /\ g \in DOMAIN groups
    /\ IF groups[g][id] = 0 \/ resources[groups[g][id]].loader # loader
         THEN Len(resources) < 2 * Cardinality(Keys) /\ GroupGetNew(g, id, loader)
         ELSE GroupGetExisting(g, id, loader)
    /\ UNCHANGED <<chains, waiters>>

GroupGet(g, id, loader) ==
    /\ g \in DOMAIN groups
    /\ IF groups[g][id] = 0
         THEN GroupGetNew(g, id, loader)
         ELSE GroupGetExisting(g, id, loader)
    /\ UNCHANGED <<chains, waiters>>

\* ---------------------------------------------------------------- viewStageMachine
\* undefined of the source: the value of a property an object does not have
Undefined == "undefined"

\* the state nodes a service rests in: the transient transition "" leaves
\* initializing for all before any event is handled
StateNodes == {"all", "active", "completed"}

\* uuid() values; NoSuchId is the id of no parameter of the stage
ParamIds == {"p1", "p2", "p3"}
NoSuchId == "p9"

\* createParameter(stage, parameter, value), and the ref of the spawned
\* parameter machine (Undefined where none was spawned)
Parameters ==
    [id : ParamIds, completed : {FALSE}, parameter : {"field"}, stage : {"Match"},
     value : {"v1", "v2"}, ref : {"ref1", Undefined}]

\* context.parameters: createParameter gives every parameter its own uuid
ParameterLists ==
    {ps \in UNION {[1..n -> Parameters] : n \in 0..MaxParams} :
        \A i, j \in DOMAIN ps : ps[i].id = ps[j].id => i = j}

\* the context of the machine definition
DefaultContext == [id |-> Undefined, completed |-> FALSE, stage |-> Undefined, parameters |-> <<>>]

\* the contexts a service is given by withContext() or a restored State
Contexts == [id : {"stage1"}, completed : BOOLEAN, stage : {"Match"}, parameters : ParameterLists]

InitEvent == [type |-> "xstate.init", parameter |-> <<>>]

\* machine.initialState: initializing is entered with no parameter to map
\* over and its transient transition ends in all
initialState == [value |-> "all", context |-> DefaultContext, event |-> InitEvent]

\* o[f] of the source: Undefined when o has no property f
Prop(o, f) == IF f \in DOMAIN o THEN o[f] ELSE Undefined

Absent == "absent"

\* e.parameter: an object with any of the properties id, value, ref
EventParameter(i, v, r) ==
    [f \in {g \in {"id", "value", "ref"} :
                \/ g = "id" /\ i # Absent
                \/ g = "value" /\ v # Absent
                \/ g = "ref" /\ r # Absent} |->
        CASE f = "id" -> i
          [] f = "value" -> v
          [] f = "ref" -> r]

EventParameters ==
    {EventParameter(i, v, r) :
        i \in ParamIds \cup {NoSuchId, Absent}, v \in {Absent, "v1", "v2"}, r \in {Absent, "ref2"}}

\* the spread without the trailing ref: the event's ref replaces the parameter's
Merge_EventRefWins(parameter, ep) ==
    [f \in DOMAIN parameter \cup DOMAIN ep |->
        IF f \in DOMAIN ep THEN ep[f] ELSE parameter[f]]

\* { ...parameter, ...e.parameter, ref: parameter.ref }
Merge(parameter, ep) ==
    [f \in DOMAIN parameter \cup DOMAIN ep \cup {"ref"} |->
        IF f = "ref" THEN Prop(parameter, "ref")
        ELSE IF f \in DOMAIN ep THEN ep[f]
        ELSE parameter[f]]

\* the assigner of PARAMETER.COMMIT: ctx.parameters.map(...)
AssignParameters(ctx, ep) ==
    [i \in 1..Len(ctx.parameters) |->
        IF ctx.parameters[i].id = Prop(ep, "id")
        THEN Merge(ctx.parameters[i], ep)
        ELSE ctx.parameters[i]]

\* service.send({ type: "PARAMETER.COMMIT", parameter: ep }): the transition
\* of the root node has an action and no target, so the state node stays
ParameterCommit(ep) ==
    /\ machine' = [value |-> machine.value,
                   context |-> [machine.context EXCEPT !.parameters = AssignParameters(machine.context, ep)],
                   event |-> [type |-> "PARAMETER.COMMIT", parameter |-> ep]]
    /\ UNCHANGED cacheVars
    /\ UNCHANGED cmp

\* ---------------------------------------------------------------- isSameArray
\* array elements; JavaScript has two zeros, which are equal to each other
Elements == {"x", "y", "+0", "-0"}

Arrays == UNION {[1..n -> Elements] : n \in 0..MaxLen}

\* the equality lodash compares elements with
SameValueZero(x, y) == x = y \/ {x, y} = {"+0", "-0"}

\* arrayIncludes(array, value)
ArrayIncludes(array, value) == \E i \in DOMAIN array : SameValueZero(array[i], value)

\* baseDifference(array, values): the elements of array, in order, that values lacks
RECURSIVE BaseDifference(_, _)
BaseDifference(array, values) ==
    IF array = <<>> THEN <<>>
    ELSE IF ArrayIncludes(values, Head(array))
         THEN BaseDifference(Tail(array), values)
         ELSE <<Head(array)>> \o BaseDifference(Tail(array), values)

\* baseUniq(array): the first occurrence of every element, in order
RECURSIVE BaseUniq(_)
BaseUniq(array) ==
    IF array = <<>> THEN <<>>
    ELSE LET init == BaseUniq(SubSeq(array, 1, Len(array) - 1))
             x == array[Len(array)]
         IN IF ArrayIncludes(init, x) THEN init ELSE Append(init, x)

\* xor(a, b): the symmetric difference, without duplicates
Xor(a, b) == BaseUniq(BaseDifference(a, b) \o BaseDifference(b, a))

\* isEmpty(array)
IsEmpty(array) == Len(array) = 0

\* a comparison that looks for the elements of a in b only
isSameArray_OneSided(a, b) == IsEmpty(BaseDifference(a, b))

isSameArray(a, b) == IsEmpty(Xor(a, b))

NoCompare == [a |-> <<>>, b |-> <<>>, result |-> "none"]

\* a caller evaluates isSameArray(cmp.a, cmp.b)
IsSameArrayCall ==
    /\ cmp.result = "none"
    /\ cmp' = [cmp EXCEPT !.result = IF isSameArray(cmp.a, cmp.b) THEN "true" ELSE "false"]
    /\ UNCHANGED cacheVars
    /\ UNCHANGED machine

\* ---------------------------------------------------------------- specification
\* no registry, no Resource, no call yet
InitCache ==
    /\ groups = [g \in {} |-> 0]
    /\ resources = <<>>
    /\ chains = <<>>
    /\ invoked = <<>>
    /\ origin = <<>>
    /\ waiters = [c \in Callers |-> NoWaiter]
    /\ last = NoCall

Init ==
    /\ InitCache
    /\ machine = initialState
    /\ cmp = NoCompare

\* the steps of a program whose callers C use the registries G and the keys K
\* and pass the loaders L
StepWith(G, K, C, L) ==
    \/ \E g \in G : CreateResourceGroup(g) /\ UNCHANGED <<machine, cmp>>
    \/ \E g \in G, id \in K, loader \in L : GroupGet(g, id, loader) /\ UNCHANGED <<machine, cmp>>
    \/ \E c \in C, r \in Res : Load(c, r) /\ UNCHANGED <<machine, cmp>>
    \/ \E r \in Res : Get(r) /\ UNCHANGED <<machine, cmp>>
    \/ \E r \in Res : Read(r) /\ UNCHANGED <<machine, cmp>>
    \/ \E h \in Handles, v \in Values : LoaderResolve(h, v) /\ UNCHANGED <<machine, cmp>>
    \/ \E h \in Handles, e \in Errors : LoaderReject(h, e) /\ UNCHANGED <<machine, cmp>>
    \/ \E h \in Handles : ThenCallback(h) /\ UNCHANGED <<machine, cmp>>
    \/ \E h \in Handles : ThenSkipped(h) /\ UNCHANGED <<machine, cmp>>
    \/ \E h \in Handles : CatchCallback(h) /\ UNCHANGED <<machine, cmp>>
    \/ \E h \in Handles : CatchSkipped(h) /\ UNCHANGED <<machine, cmp>>
    \/ \E c \in C : Notify(c) /\ UNCHANGED <<machine, cmp>>

Step(G, K, C) == StepWith(G, K, C, Loaders)

\* one Resource, obtained from one registry, and every caller
Next == Step({"g1"}, {"a"}, Callers)

Spec == Init /\ [][Next]_vars

\* one registry, every key, one caller
NextRegistry == Step({"g1"}, Keys, {"c1"})

SpecRegistry == Init /\ [][NextRegistry]_vars

\* every registry, one key, one caller, one loader
NextGroups == StepWith(Groups, {"a"}, {"c1"}, {"A"})

SpecGroups == Init /\ [][NextGroups]_vars

\* the event loop runs every promise reaction that is ready and resumes
\* every caller whose awaited promise has settled; whether the loader's
\* promise ever settles is up to the loader
Fairness ==
    /\ \A h \in 1..MaxCalls :
          /\ WF_vars(h \in Handles /\ ThenCallback(h) /\ UNCHANGED <<machine, cmp>>)
          /\ WF_vars(h \in Handles /\ ThenSkipped(h) /\ UNCHANGED <<machine, cmp>>)
          /\ WF_vars(h \in Handles /\ CatchCallback(h) /\ UNCHANGED <<machine, cmp>>)
          /\ WF_vars(h \in Handles /\ CatchSkipped(h) /\ UNCHANGED <<machine, cmp>>)
    /\ \A c \in Callers : WF_vars(Notify(c) /\ UNCHANGED <<machine, cmp>>)

SpecLive == Init /\ [][Next]_vars /\ Fairness

\* a viewStage service started from any State, receiving PARAMETER.COMMIT events
InitStage ==
    /\ InitCache
    /\ cmp = NoCompare
    /\ machine \in [value : StateNodes, context : Contexts, event : {InitEvent}]

NextStage == \E ep \in EventParameters : ParameterCommit(ep)

SpecStage == InitStage /\ [][NextStage]_vars

\* callers of isSameArray with any two arrays
InitArrays ==
    /\ InitCache
    /\ machine = initialState
    /\ cmp \in [a : Arrays, b : Arrays, result : {"none"}]

NextArrays == IsSameArrayCall

SpecArrays == InitArrays /\ [][NextArrays]_vars

\* ================================================================ properties

\* C1  Single-flight.  For a Resource whose first load() got a promise from the
\* loader (the loader is then outstanding until that promise settles), the
\* loader has run exactly once however many load() calls were issued, every
\* caller holds the one handle that invocation produced, and every caller that
\* has been resumed observed the outcome of that handle: the same value or the
\* same error for all of them.
C1_SingleFlight ==
    \A r \in Res :
        (Len(invoked[r]) >= 1 /\ invoked[r][1].h # 0) =>
            /\ Len(invoked[r]) = 1
            /\ resources[r].promise = invoked[r][1].h
            /\ \A c \in Callers :
                 waiters[c].res = r =>
                    /\ waiters[c].h = invoked[r][1].h
                    /\ waiters[c].seen \in {PendingP, chains[invoked[r][1].h].p2}
            /\ \A c, d \in Callers :
                 (/\ waiters[c].res = r /\ waiters[d].res = r
                  /\ waiters[c].seen.st # "pending" /\ waiters[d].seen.st # "pending")
                     => waiters[c].seen = waiters[d].seen

\* three callers loaded the same Resource and all were resumed with one value
C1_Witness ==
    \E r \in Res :
        /\ Len(invoked[r]) = 1
        /\ \A c \in Callers : waiters[c].res = r /\ waiters[c].seen = FulfilledP("v1")

\* two callers loaded the same Resource and both were resumed with one error
C1_WitnessRejected ==
    \E r \in Res : \E c, d \in Callers :
        /\ c # d
        /\ waiters[c].res = r /\ waiters[d].res = r
        /\ waiters[c].seen = RejectedP("e1") /\ waiters[d].seen = RejectedP("e1")

\* C2  The loader of a Resource is invoked at most once, whatever the calls
\* and whatever the loader does (resolve, reject, throw when called).
C2_LoaderAtMostOnce ==
    \A r \in Res : Len(invoked[r]) <= 1

\* C3  Terminal states are absorbing: from a state where a Resource is
\* Resolved(v) or Rejected(e), no step changes its state, its stored value or
\* its stored error.
C3_TerminalAbsorbing ==
    [][\A r \in Res :
          State(r).st \in {"Resolved", "Rejected"} =>
              /\ State(r)' = State(r)
              /\ resources'[r].result = resources[r].result
              /\ resources'[r].error = resources[r].error
              /\ resources'[r].promise = resources[r].promise]_vars

\* load() was called on a Resource that had already been rejected
C3_Witness ==
    /\ last.op = "load"
    /\ State(last.res) = [st |-> "Rejected", val |-> "e1"]
    /\ resources[last.res].error = "e1"

\* C4  Once a Resource has resolved with v, for every v the loader may
\* resolve with: load() yields v (its handle is the one fulfilled with v),
\* read() returns v, and neither invokes the loader again (the last
\* invocation on record is the one that produced the stored handle).
C4_ResolvedReplaysValue ==
    (last.op \in {"load", "read"} /\ State(last.res).st = "Resolved") =>
        /\ invoked[last.res][Len(invoked[last.res])].h = resources[last.res].promise
        /\ last.kind = "return"
        /\ last.op = "read" => last.val = State(last.res).val
        /\ last.op = "load" => chains[last.h].p1 = FulfilledP(State(last.res).val)

\* C5  get() returns the stored value if and only if the Resource is
\* Resolved, and nothing in the states Unstarted, Pending and Rejected.
C5_GetReturnsValueIffResolved ==
    last.op = "get" =>
        IF State(last.res).st = "Resolved"
          THEN last.kind = "return" /\ last.val = State(last.res).val
          ELSE last.kind = "undefined"

\* C6  Once the loader has rejected with e, for every error value e, read()
\* throws exactly e.
C6_RejectedReplaysError ==
    (last.op = "read" /\ State(last.res).st = "Rejected") =>
        /\ last.kind = "throwError"
        /\ last.val = State(last.res).val

\* C7  read() on a Pending Resource throws a promise, and that promise is the
\* in-flight handle: the one stored in the Resource and the one every load()
\* on that Resource returned.
C7_ReadWhilePending ==
    (last.op = "read" /\ State(last.res).st = "Pending") =>
        /\ last.kind = "throwPromise"
        /\ last.h # 0
        /\ last.h = resources[last.res].promise
        /\ \A c \in Callers : waiters[c].res = last.res => waiters[c].h = last.h

\* read() ran on a Pending Resource that a caller is waiting for
C7_Witness ==
    /\ last.op = "read"
    /\ State(last.res).st = "Pending"
    /\ \E c \in Callers : waiters[c].res = last.res /\ waiters[c].seen = PendingP

\* C8  load() never throws to its caller: a failure of the loader is stored
\* in the Resource, so that read() on a Resource whose loader failed throws
\* that error.
C8_LoadNeverThrows ==
    last.op = "load" => last.kind = "return"

\* C9  Registry uniqueness: the Resource a registry call returns for a key is
\* the one Resource ever constructed for that key, it still holds the loader
\* of the call that constructed it, and that loader is the only one load()
\* has invoked through it; a loader supplied by a later call is never used.
C9_RegistryUniqueness ==
    /\ last.op = "groupGet" =>
          /\ last.res \in Res
          /\ groups[last.grp][last.key] = last.res
          /\ \A r \in Res :
                (origin[r].grp = last.grp /\ origin[r].key = last.key) => r = last.res
    /\ \A r \in Res :
          /\ resources[r].loader = origin[r].loader
          /\ \A i \in 1..Len(invoked[r]) : invoked[r][i].loader = origin[r].loader

\* a key registered with loader A was requested again with loader B after A
\* had been invoked
C9_Witness ==
    /\ last.op = "groupGet"
    /\ last.arg = "B"
    /\ last.res \in Res
    /\ origin[last.res].loader = "A"
    /\ Len(invoked[last.res]) >= 1

\* C10  One Resource is constructed per key and its loader is invoked once,
\* whatever the interleaving of the callers' registry calls and load() calls.
C10_OneResourceOneInvocationPerKey ==
    /\ \A r, q \in Res :
          (origin[r].grp = origin[q].grp /\ origin[r].key = origin[q].key) => r = q
    /\ \A r \in Res : Len(invoked[r]) <= 1

\* C11  The registry call never starts a load: it invokes no loader and
\* creates no promise, the Resource it constructs is Unstarted with no loader
\* invocation, and an Unstarted Resource stays Unstarted through every step
\* that is not a load() on it.
C11_GetStartsNoLoad ==
    [][/\ last'.op = "groupGet" =>
            /\ chains' = chains
            /\ \A r \in Res : invoked'[r] = invoked[r] /\ resources'[r] = resources[r]
            /\ \A r \in 1..Len(resources') :
                  r \notin Res => /\ r = last'.res
                                  /\ State(r)'.st = "Unstarted"
                                  /\ invoked'[r] = <<>>
                                  /\ resources'[r].result = NullV
                                  /\ resources'[r].error = NullV
       /\ \A r \in Res :
            (State(r).st = "Unstarted" /\ ~(last'.op = "load" /\ last'.res = r))
                => State(r)'.st = "Unstarted" /\ invoked'[r] = invoked[r]]_vars

\* a registry call returned a Resource that nobody has loaded, after the
\* Resource of the other key had been loaded and resolved
C11_Witness ==
    /\ last.op = "groupGet"
    /\ last.res \in Res
    /\ State(last.res).st = "Unstarted"
    /\ invoked[last.res] = <<>>
    /\ \E q \in Res : State(q).st = "Resolved"

\* C12  read() does not start loading: in every state a read() step invokes
\* no loader and leaves every Resource's fields, every promise, the registry
\* and every caller's handle unchanged.
C12_ReadChangesNothing ==
    [][last'.op = "read" =>
          /\ UNCHANGED <<groups, resources, chains, invoked, origin, waiters>>
          /\ last'.res \in Res
          /\ \A r \in Res : State(r)' = State(r)]_vars

\* read() ran on a Resource whose fields are as the constructor left them
C12_Witness ==
    /\ last.op = "read"
    /\ last.res \in Res
    /\ resources[last.res] = NewResource(origin[last.res].loader)
    /\ chains = <<>>

\* C13  read() on a Resource on which load() has never been invoked returns
\* no value and throws no error: it throws the promise field, which is null
\* (no handle to wait on).
C13_ReadBeforeLoad ==
    (last.op = "read" /\ invoked[last.res] = <<>>) =>
        /\ last.kind = "throwPromise"
        /\ last.h = 0

\* read() threw the null promise of a Resource that was never loaded
C13_Witness ==
    /\ last.op = "read"
    /\ invoked[last.res] = <<>>
    /\ last.kind = "throwPromise"
    /\ last.h = 0

\* C14  Cross-key independence: two keys of a registry map to two Resources
\* with two promises, and a step changes the fields or the state of a
\* Resource only if it is a call on that Resource or the settling or a
\* callback of that Resource's own promise; every other Resource is left as
\* it was.
C14_CrossKeyIndependence ==
    /\ [](\A g \in DOMAIN groups : \A k, l \in Keys :
            (k # l /\ groups[g][k] # 0 /\ groups[g][l] # 0) =>
                /\ groups[g][k] # groups[g][l]
                /\ resources[groups[g][k]].promise # 0 =>
                      /\ resources[groups[g][k]].promise # resources[groups[g][l]].promise
                      /\ chains[resources[groups[g][k]].promise].res = groups[g][k])
    /\ [][\A r \in Res :
            (resources'[r] # resources[r] \/ State(r)' # State(r) \/ invoked'[r] # invoked[r]) =>
                \/ last'.op = "load" /\ last'.res = r
                \/ /\ last'.op = "callback"
                   /\ \E h \in Handles :
                         /\ chains[h].res = r
                         /\ chains'[h] # chains[h]
                         /\ \A i \in Handles \ {h} : chains'[i] = chains[i]]_vars

\* the load of key a failed and the load of key b succeeded
C14_Witness ==
    /\ "g1" \in DOMAIN groups
    /\ groups["g1"]["a"] # 0
    /\ groups["g1"]["b"] # 0
    /\ State(groups["g1"]["a"]) = [st |-> "Rejected", val |-> "e1"]
    /\ State(groups["g1"]["b"]) = [st |-> "Resolved", val |-> "v1"]
    /\ resources[groups["g1"]["b"]].error = NullV
    /\ resources[groups["g1"]["a"]].result = NullV

\* C15  Ordering: a caller is resumed only after the loader's promise has
\* settled and the outcome is stored; when a caller has observed the value v,
\* get() and read() on that Resource report v, and when it has observed the
\* error e, read() reports e.
C15_WaitersSeeStoredOutcome ==
    \A c \in Callers :
        waiters[c].seen.st # "pending" =>
            /\ chains[waiters[c].h].p0.st = waiters[c].seen.st
            /\ chains[waiters[c].h].p0.val = waiters[c].seen.val
            /\ State(waiters[c].res).val = waiters[c].seen.val
            /\ waiters[c].seen.st = "fulfilled" =>
                  /\ State(waiters[c].res).st = "Resolved"
                  /\ GetOutcome(waiters[c].res).kind = "return"
                  /\ GetOutcome(waiters[c].res).val = waiters[c].seen.val
                  /\ ReadOutcome(waiters[c].res).kind = "return"
                  /\ ReadOutcome(waiters[c].res).val = waiters[c].seen.val
            /\ waiters[c].seen.st = "rejected" =>
                  /\ State(waiters[c].res).st = "Rejected"
                  /\ ReadOutcome(waiters[c].res).kind = "throwError"
                  /\ ReadOutcome(waiters[c].res).val = waiters[c].seen.val

\* C16  The transitions of a Resource are Unstarted -> Pending by load(),
\* Pending -> Resolved and Pending -> Rejected: no other change of state
\* happens, and load() on an Unstarted Resource leaves it Pending with a
\* handle stored.
C16_Transitions ==
    [][\A r \in Res :
          /\ State(r)' # State(r) =>
                \/ /\ State(r).st = "Unstarted" /\ State(r)'.st = "Pending"
                   /\ last'.op = "load" /\ last'.res = r
                \/ State(r).st = "Pending" /\ State(r)'.st \in {"Resolved", "Rejected"}
          /\ (State(r).st = "Unstarted" /\ last'.op = "load" /\ last'.res = r) =>
                State(r)'.st = "Pending" /\ resources'[r].promise # 0]_vars

\* C17  The in-flight handle is write-once: once this.promise is set no step
\* replaces or clears it, in any state, and every load() on that Resource
\* returns it.
C17_HandleWriteOnce ==
    [][\A r \in Res :
          resources[r].promise # 0 =>
              /\ resources'[r].promise = resources[r].promise
              /\ (last'.op = "load" /\ last'.res = r) =>
                    /\ last'.kind = "return"
                    /\ last'.h = resources[r].promise
                    /\ invoked'[r] = invoked[r]]_vars

\* load() on a Resolved Resource returned the handle an earlier caller had
\* awaited to its value
C17_Witness ==
    /\ last.op = "load"
    /\ State(last.res).st = "Resolved"
    /\ last.h = resources[last.res].promise
    /\ \E c, d \in Callers :
          /\ c # d
          /\ waiters[c].h = last.h /\ waiters[c].seen.st = "fulfilled"
          /\ waiters[d].h = last.h /\ waiters[d].seen.st = "pending"

\* C18  No timeout and no settlement by a consumer: while the loader's
\* promise is pending, every step that is not the settling of that promise
\* leaves the Resource Pending with nothing stored, and read() reports not
\* ready with the handle.
C18_PendingUntilLoaderSettles ==
    /\ [](\A r \in Res :
            (resources[r].promise # 0 /\ chains[resources[r].promise].p0.st = "pending") =>
                /\ State(r).st = "Pending"
                /\ ReadOutcome(r).kind = "throwPromise"
                /\ ReadOutcome(r).h = resources[r].promise
                /\ GetOutcome(r).kind = "undefined")
    /\ [][\A r \in Res :
            (State(r).st = "Pending" /\ State(r)'.st # "Pending") =>
                /\ chains[resources[r].promise].p0.st # "pending"
                /\ last'.op = "callback"]_vars

\* every caller has loaded a Resource whose loader has not settled, and
\* read() was called on it
C18_Witness ==
    /\ last.op = "read"
    /\ last.kind = "throwPromise"
    /\ last.h # 0
    /\ chains[last.h].p0.st = "pending"
    /\ \A c \in Callers : waiters[c].h = last.h

\* C19  Liveness: once the promise a loader returned has settled, the
\* Resource reaches Resolved or Rejected and the handle load() returned
\* settles, and every caller holding that handle is resumed with its outcome.
C19_SettledLoadReachesEveryWaiter ==
    /\ \A h \in 1..MaxCalls :
          (h \in Handles /\ chains[h].p0.st # "pending")
              ~> (/\ h \in Handles
                  /\ State(chains[h].res).st \in {"Resolved", "Rejected"}
                  /\ chains[h].p2 = chains[h].p0)
    /\ \A c \in Callers :
          (waiters[c].h # 0 /\ chains[waiters[c].h].p0.st # "pending")
              ~> (/\ waiters[c].h # 0
                  /\ waiters[c].seen.st # "pending"
                  /\ waiters[c].seen = chains[waiters[c].h].p0)

\* the loader resolved and all three callers of load() were resumed
C19_Witness ==
    \E h \in Handles :
        /\ chains[h].p2 = FulfilledP("v2")
        /\ State(chains[h].res) = [st |-> "Resolved", val |-> "v2"]
        /\ \A c \in Callers : waiters[c].h = h /\ waiters[c].seen = FulfilledP("v2")

\* C20  The registry table only grows: a registry stays, a key mapped to a
\* Resource stays mapped to that Resource, and a registry call changes the
\* mapping of no key other than its own (and of no other registry).
C20_TableOnlyGrows ==
    [][\A g \in DOMAIN groups : \A k \in Keys :
          /\ g \in DOMAIN groups'
          /\ groups[g][k] # 0 => groups'[g][k] = groups[g][k]
          /\ groups'[g][k] # groups[g][k] =>
                /\ last'.op = "groupGet"
                /\ last'.grp = g
                /\ last'.key = k
                /\ groups'[g][k] = last'.res]_vars

\* key b was registered and requested with another loader while key a kept
\* the Resource it was given first, which has been loaded since
C20_Witness ==
    /\ last.op = "groupGet"
    /\ last.key = "b"
    /\ last.arg # origin[last.res].loader
    /\ groups[last.grp]["a"] = 1
    /\ groups[last.grp]["b"] = 2
    /\ State(1).st = "Rejected"

\* C21  A Resource never holds both a value and an error, and get() and
\* read() report no value for a Resource whose loader failed, whether its
\* promise rejected or it threw when called.
C21_ValueXorError ==
    \A r \in Res :
        /\ ~(resources[r].result # NullV /\ resources[r].error # NullV)
        /\ (\/ State(r).st = "Rejected"
            \/ resources[r].error # NullV
            \/ (resources[r].promise # 0 /\ chains[resources[r].promise].p0.st = "rejected")
            \/ (resources[r].promise = 0 /\ invoked[r] # <<>>)) =>
               /\ resources[r].result = NullV
               /\ GetOutcome(r).kind = "undefined"
               /\ ReadOutcome(r).kind # "return"

\* get() reported nothing for a Resource that holds the loader's error
C21_Witness ==
    /\ last.op = "get"
    /\ last.kind = "undefined"
    /\ resources[last.res].error = "e2"
    /\ resources[last.res].result = NullV

\* C25  The in-flight handle is present exactly when the state has left
\* Unstarted: a stored value or error implies a stored handle, and the handle
\* is absent if and only if the loader has never been invoked.
C25_HandleIffLoaderInvoked ==
    \A r \in Res :
        /\ (resources[r].result # NullV \/ resources[r].error # NullV) => resources[r].promise # 0
        /\ State(r).st # "Unstarted" <=> resources[r].promise # 0
        /\ resources[r].promise = 0 <=> invoked[r] = <<>>

\* C22  Registries are independently scoped: the same key requested from two
\* registries yields two Resources with two promises, a registry call writes
\* only the table of its own registry, and a step changes a Resource only if
\* it is a call on that Resource or the settling or a callback of its own
\* promise.
C22_RegistriesIndependent ==
    /\ [](\A g, f \in DOMAIN groups : \A k \in Keys :
            (g # f /\ groups[g][k] # 0 /\ groups[f][k] # 0) =>
                /\ groups[g][k] # groups[f][k]
                /\ origin[groups[g][k]].grp = g
                /\ resources[groups[g][k]].promise # 0 =>
                      /\ resources[groups[g][k]].promise # resources[groups[f][k]].promise
                      /\ chains[resources[groups[g][k]].promise].res = groups[g][k])
    /\ [][/\ \A g \in DOMAIN groups :
               groups'[g] # groups[g] => last'.op = "groupGet" /\ last'.grp = g
          /\ \A r \in Res :
               (resources'[r] # resources[r] \/ State(r)' # State(r) \/ invoked'[r] # invoked[r]) =>
                   \/ last'.op = "load" /\ last'.res = r
                   \/ /\ last'.op = "callback"
                      /\ \E h \in Handles :
                            /\ chains[h].res = r
                            /\ chains'[h] # chains[h]
                            /\ \A i \in Handles \ {h} : chains'[i] = chains[i]]_vars

\* key a of registry g1 failed to load and key a of registry g2 loaded
C22_Witness ==
    /\ DOMAIN groups = Groups
    /\ groups["g1"]["a"] # 0
    /\ groups["g2"]["a"] # 0
    /\ State(groups["g1"]["a"]) = [st |-> "Rejected", val |-> "e1"]
    /\ State(groups["g2"]["a"]) = [st |-> "Resolved", val |-> "v1"]
    /\ resources[groups["g2"]["a"]].error = NullV

\* C23  In viewStageMachine, PARAMETER.COMMIT (handled in every state node)
\* keeps the length and order of context.parameters, gives the parameter
\* whose id equals the event parameter's id the fields of the event parameter
\* while its ref stays, leaves every other parameter and the context fields
\* id, completed and stage as they were, and keeps the state node; when no
\* parameter has the event parameter's id the context is unchanged.
C23_CommitTouchesOnlyMatchingParameter ==
    [][machine' # machine =>
        LET ep == machine'.event.parameter
            old == machine.context.parameters
            new == machine'.context.parameters
        IN  /\ machine'.event.type = "PARAMETER.COMMIT"
            /\ machine'.value = machine.value
            /\ machine'.context.id = machine.context.id
            /\ machine'.context.completed = machine.context.completed
            /\ machine'.context.stage = machine.context.stage
            /\ Len(new) = Len(old)
            /\ \A i \in 1..Len(old) :
                  /\ new[i].id = old[i].id
                  /\ new[i].ref = old[i].ref
                  /\ DOMAIN new[i] = DOMAIN old[i]
                  /\ old[i].id # Prop(ep, "id") => new[i] = old[i]
                  /\ old[i].id = Prop(ep, "id") =>
                        \A f \in DOMAIN old[i] \ {"ref"} :
                            new[i][f] = IF f \in DOMAIN ep THEN ep[f] ELSE old[i][f]
            /\ (\A i \in 1..Len(old) : old[i].id # Prop(ep, "id")) =>
                  machine'.context = machine.context]_vars

\* in node active, a commit for the second of two parameters carried a new
\* value and a ref of its own: the value was taken, the ref was not
C23_Witness ==
    /\ machine.value = "active"
    /\ machine.event = [type |-> "PARAMETER.COMMIT",
                        parameter |-> [id |-> "p2", value |-> "v2", ref |-> "ref2"]]
    /\ Len(machine.context.parameters) = 2
    /\ machine.context.parameters[1].value = "v1"
    /\ machine.context.parameters[2] =
          [id |-> "p2", completed |-> FALSE, parameter |-> "field", stage |-> "Match",
           value |-> "v2", ref |-> "ref1"]

\* C24  isSameArray(a, b) disregards order: it returns true exactly when
\* every element of a occurs in b and every element of b occurs in a, gives
\* the same answer with its arguments exchanged, and gives the same answer
\* for every reordering of a and of b.
C24_SameElementsAnyOrder ==
    cmp.result # "none" =>
        LET Reorderings(s) ==
                {[i \in 1..Len(s) |-> s[f[i]]] :
                    f \in {g \in [1..Len(s) -> 1..Len(s)] :
                              \A i, j \in 1..Len(s) : g[i] = g[j] => i = j}}
            same == /\ \A i \in DOMAIN cmp.a : ArrayIncludes(cmp.b, cmp.a[i])
                    /\ \A j \in DOMAIN cmp.b : ArrayIncludes(cmp.a, cmp.b[j])
        IN  /\ cmp.result = "true" <=> same
            /\ isSameArray(cmp.b, cmp.a) <=> cmp.result = "true"
            /\ \A pa \in Reorderings(cmp.a), pb \in Reorderings(cmp.b) :
                  isSameArray(pa, pb) <=> cmp.result = "true"

\* two arrays with the same elements in another order compared equal
C24_Witness ==
    /\ cmp.a = <<"x", "y">>
    /\ cmp.b = <<"y", "x">>
    /\ cmp.result = "true"

====
